---- MODULE Spec2Model ----
(***************************************************************************)
(* The average-sales report of Расчет_средняя_продажа.py: main() opens the *)
(* DuckDB file analysis.db, optionally (re)loads three groups of source    *)
(* files, derives Stocks, Sales, the temporary view combined_view and the  *)
(* table Averages, and copies Averages to a CSV file.                      *)
(*                                                                         *)
(* Tables are bags (multisets) of rows.  A nullable column holds {} for    *)
(* SQL NULL and {v} for the value v; an SQL boolean holds {TRUE}, {FALSE}  *)
(* or {} (unknown).  Dates are day numbers of the year 2025.               *)
(***************************************************************************)
EXTENDS Integers, Sequences, FiniteSets, Bags, TLC

\* ------------------------------------------------------------- SQL values

NULL == {}

Get(x) == CHOOSE v \in x : TRUE

\* x > n
Gt3(x, n) == IF x = NULL THEN NULL ELSE {Get(x) > n}

\* x = y
Eq3(x, y) == IF x = NULL \/ y = NULL THEN NULL ELSE {Get(x) = Get(y)}

\* a OR b
Or3(a, b) ==
    IF a = {TRUE} \/ b = {TRUE} THEN {TRUE}
    ELSE IF a = {FALSE} /\ b = {FALSE} THEN {FALSE}
    ELSE NULL

\* a AND b
And3(a, b) ==
    IF a = {FALSE} \/ b = {FALSE} THEN {FALSE}
    ELSE IF a = {TRUE} /\ b = {TRUE} THEN {TRUE}
    ELSE NULL

\* COALESCE(x, d)
Coalesce(x, d) == IF x = NULL THEN d ELSE x

RECURSIVE SumFn(_)
\* The sum of the values of a function with a finite domain.
SumFn(f) ==
    IF DOMAIN f = {} THEN 0
    ELSE LET x == CHOOSE y \in DOMAIN f : TRUE
         IN  f[x] + SumFn([y \in DOMAIN f \ {x} |-> f[y]])

RECURSIVE MaxOf(_)
MaxOf(S) ==
    LET x == CHOOSE y \in S : TRUE
    IN  IF S = {x} THEN x
        ELSE LET m == MaxOf(S \ {x}) IN IF x > m THEN x ELSE m

\* The rows of bag B that satisfy P, with their multiplicities.
FilterBag(B, P(_)) == [r \in {e \in DOMAIN B : P(e)} |-> B[r]]

\* The bag of F(r) for the rows r of B.
MapBag(B, F(_)) ==
    [x \in {F(e) : e \in DOMAIN B} |->
        SumFn([e \in {e \in DOMAIN B : F(e) = x} |-> B[e]])]

\* COUNT( * )
CountRows(B) == SumFn(B)

\* COUNT(col): the rows whose column is not NULL.
CountCol(B, col) == SumFn([e \in {e \in DOMAIN B : e[col] # NULL} |-> B[e]])

\* The sum of the non-NULL values of a column, each taken with its multiplicity.
SumNonNull(B, col) ==
    SumFn([e \in {e \in DOMAIN B : e[col] # NULL} |-> B[e] * Get(e[col])])

\* SUM(col): NULL when no row has a value.
SqlSum(B, col) == IF CountCol(B, col) = 0 THEN NULL ELSE {SumNonNull(B, col)}

\* Variant of AVG: the mean over the rows with a nonzero value only.
SqlAvgNonZero(B, col) ==
    LET nz == FilterBag(B, LAMBDA e : e[col] \notin {NULL, {0}})
    IN  IF nz = EmptyBag THEN NULL
        ELSE {[num |-> SumNonNull(nz, col), den |-> CountRows(nz)]}

\* AVG(col): the sum of the non-NULL values over their number, kept as the
\* fraction num/den; NULL when no row has a value.
SqlAvg(B, col) ==
    IF CountCol(B, col) = 0 THEN NULL
    ELSE {[num |-> SumNonNull(B, col), den |-> CountCol(B, col)]}

\* MAX(col)
SqlMax(B, col) ==
    IF CountCol(B, col) = 0 THEN NULL
    ELSE {MaxOf({Get(e[col]) : e \in {e \in DOMAIN B : e[col] # NULL}})}

\* ------------------------------------------------------------- constants

INPUT_TABLE_NAME == "parquet_data"
TRADE_POINTS_TABLE_NAME == "trade_points"
INDICATORS_TABLE_NAME == "indicators"

\* 'Маленький склад'
SmallWarehouse == "small_warehouse"

\* '2025-01-14' and '2025-03-31' as day numbers of 2025
WindowStart == 14
WindowEnd == 90

\* "Дата"::DATE drops the time of day of a timestamp.
CastDate(ts) == ts.date

\* x BETWEEN lo AND hi
Between(x, lo, hi) == lo <= x /\ x <= hi

\* SELECT "Код склада" FROM trade_points WHERE "Тип склада" = 'Маленький склад'
SmallWarehouseCodes(tp) ==
    {t.store_code : t \in {t \in DOMAIN tp : t.store_type = SmallWarehouse}}

\* ------------------------------------------------------------- the queries

StocksFilter(r, tp) ==
    /\ r.final_store_id \in SmallWarehouseCodes(tp)
    /\ Between(r.dt, WindowStart, WindowEnd)

\* CREATE OR REPLACE TABLE Stocks AS SELECT ... FROM parquet_data WHERE ...
StocksQuery(input, tp) ==
    MapBag(FilterBag(input, LAMBDA r : StocksFilter(r, tp)),
           LAMBDA r : [Store |-> r.final_store_id, Item |-> r.final_item_id,
                       Dt |-> r.dt, Stock_pc |-> r.stock])

\* Variant of the sales filter: its literal for the end of the window is a day
\* later than the one of the stock filter.
SalesFilterLaterEnd(r, tp) ==
    /\ r.store \in SmallWarehouseCodes(tp)
    /\ Between(CastDate(r.date), WindowStart, WindowEnd + 1)

SalesFilter(r, tp) ==
    /\ r.store \in SmallWarehouseCodes(tp)
    /\ Between(CastDate(r.date), WindowStart, WindowEnd)

SalesKey(r) == [Store |-> r.store, Item |-> r.item, Dt |-> CastDate(r.date)]

\* CREATE OR REPLACE TABLE Sales AS SELECT ... SUM(...) ... GROUP BY 1, 2, 3
SalesQuery(ind, tp) ==
    LET kept == FilterBag(ind, LAMBDA r : SalesFilter(r, tp))
        group(k) == FilterBag(kept, LAMBDA r : SalesKey(r) = k)
    IN  SetToBag({[Store |-> k.Store, Item |-> k.Item, Dt |-> k.Dt,
                   Sales_pc |-> SqlSum(group(k), "pc"),
                   Sales_rub |-> SqlSum(group(k), "rub")]
                  : k \in {SalesKey(r) : r \in DOMAIN kept}})

\* ON s.Dt = st.Dt AND s.Store = st.Store AND s.Item = st.Item
JoinOn(s, st) ==
    And3(And3({s.Dt = st.Dt}, {s.Store = st.Store}), Eq3(s.Item, st.Item)) = {TRUE}

\* Sales s FULL OUTER JOIN Stocks st: a bag of pairs; the missing side is {}.
FullOuterJoin(sales, stocks) ==
    LET both == {[s |-> {a}, st |-> {b}] :
                    <<a, b>> \in {p \in (DOMAIN sales) \X (DOMAIN stocks) :
                                     JoinOn(p[1], p[2])}}
        left == {[s |-> {a}, st |-> {}] :
                    a \in {a \in DOMAIN sales :
                              \A b \in DOMAIN stocks : ~JoinOn(a, b)}}
        right == {[s |-> {}, st |-> {b}] :
                    b \in {b \in DOMAIN stocks :
                              \A a \in DOMAIN sales : ~JoinOn(a, b)}}
    IN  [j \in both \cup left \cup right |->
            (IF j.s = {} THEN 1 ELSE sales[Get(j.s)])
          * (IF j.st = {} THEN 1 ELSE stocks[Get(j.st)])]

\* A column of one side of a join pair: NULL when that side is missing.
Col(side, c) == IF side = {} THEN NULL ELSE Get(side)[c]

\* Variant of the WHERE clause: AND for OR.
CombinedWhereBoth(j) ==
    And3(Gt3(Col(j.s, "Sales_pc"), 0), Gt3(Col(j.st, "Stock_pc"), 0)) = {TRUE}

\* Variant of the WHERE clause: >= for >.
CombinedWhereNonNegative(j) ==
    Or3(Gt3(Col(j.s, "Sales_pc"), -1), Gt3(Col(j.st, "Stock_pc"), -1)) = {TRUE}

\* WHERE s.Sales_pc > 0 OR st.Stock_pc > 0
CombinedWhere(j) ==
    Or3(Gt3(Col(j.s, "Sales_pc"), 0), Gt3(Col(j.st, "Stock_pc"), 0)) = {TRUE}

\* The key columns are not nullable in a table row, the item is.
KeyCol(side, c) == IF side = {} THEN NULL ELSE {Get(side)[c]}

\* Variant of the select list: Sales_rub is not coalesced.
CombinedSelectRawRub(j) ==
    [Dt |-> Get(Coalesce(KeyCol(j.s, "Dt"), KeyCol(j.st, "Dt"))),
     Store |-> Get(Coalesce(KeyCol(j.s, "Store"), KeyCol(j.st, "Store"))),
     Item |-> Coalesce(Col(j.s, "Item"), Col(j.st, "Item")),
     Sales_pc |-> Coalesce(Col(j.s, "Sales_pc"), {0}),
     Sales_rub |-> Col(j.s, "Sales_rub"),
     Stock_pc |-> Coalesce(Col(j.st, "Stock_pc"), {0})]

\* The select list of combined_view.
CombinedSelect(j) ==
    [Dt |-> Get(Coalesce(KeyCol(j.s, "Dt"), KeyCol(j.st, "Dt"))),
     Store |-> Get(Coalesce(KeyCol(j.s, "Store"), KeyCol(j.st, "Store"))),
     Item |-> Coalesce(Col(j.s, "Item"), Col(j.st, "Item")),
     Sales_pc |-> Coalesce(Col(j.s, "Sales_pc"), {0}),
     Sales_rub |-> Coalesce(Col(j.s, "Sales_rub"), {0}),
     Stock_pc |-> Coalesce(Col(j.st, "Stock_pc"), {0})]

\* CREATE OR REPLACE TEMP VIEW combined_view AS SELECT ... WHERE ...
CombinedQuery(sales, stocks) ==
    MapBag(FilterBag(FullOuterJoin(sales, stocks), CombinedWhere), CombinedSelect)

\* Variant of the Averages query: GROUP BY Store, Item, Dt.
AveragesQueryPerDay(cv) ==
    LET key(r) == [Store |-> r.Store, Item |-> r.Item, Dt |-> r.Dt]
        group(k) == FilterBag(cv, LAMBDA r : key(r) = k)
    IN  MapBag(SetToBag({key(r) : r \in DOMAIN cv}),
               LAMBDA k :
                  [Store |-> k.Store, Item |-> k.Item,
                   Avg_sales_pc |-> SqlAvg(group(k), "Sales_pc"),
                   Avg_sales_rub |-> SqlAvg(group(k), "Sales_rub"),
                   Days_with_data |-> CountRows(group(k)),
                   Total_sales_rub |-> SqlSum(group(k), "Sales_rub"),
                   Total_sales_pc |-> SqlSum(group(k), "Sales_pc"),
                   Max_stock_pc |-> SqlMax(group(k), "Stock_pc")])

\* CREATE OR REPLACE TABLE Averages AS SELECT ... FROM combined_view GROUP BY Store, Item
AveragesQuery(cv) ==
    LET key(r) == [Store |-> r.Store, Item |-> r.Item]
        group(k) == FilterBag(cv, LAMBDA r : key(r) = k)
    IN  SetToBag({[Store |-> k.Store, Item |-> k.Item,
                   Avg_sales_pc |-> SqlAvg(group(k), "Sales_pc"),
                   Avg_sales_rub |-> SqlAvg(group(k), "Sales_rub"),
                   Days_with_data |-> CountRows(group(k)),
                   Total_sales_rub |-> SqlSum(group(k), "Sales_rub"),
                   Total_sales_pc |-> SqlSum(group(k), "Sales_pc"),
                   Max_stock_pc |-> SqlMax(group(k), "Stock_pc")]
                  : k \in {key(r) : r \in DOMAIN cv}})

\* ------------------------------------------------------------- bounds

\* The runs of main on one analysis.db.
MaxRuns == 2

\* The configured files that may be missing.
MaxMissing == 1

\* The rows of the stock and indicator feeds together.
MaxRows == 2

\* The price of one unit in the enumerated indicator rows.
UnitPrice == 10

\* ------------------------------------------------------------- the store

TableNames ==
    {INPUT_TABLE_NAME, TRADE_POINTS_TABLE_NAME, INDICATORS_TABLE_NAME,
     "Stocks", "Sales", "Averages"}

NoTable == [exists |-> FALSE, rows |-> EmptyBag]

\* analysis.db before anything was ever loaded into it.
ColdDb == [t \in TableNames |-> NoTable]

\* DROP TABLE IF EXISTS t
DropTableIfExists(d, t) == [d EXCEPT ![t] = NoTable]

\* Variant of table creation: the rows are added to those the table holds.
CreateTableAppend(d, t, rows) ==
    [d EXCEPT ![t] = [exists |-> TRUE, rows |-> d[t].rows (+) rows]]

\* CREATE TABLE t AS ... / CREATE OR REPLACE TABLE t AS ...: the table holds
\* exactly the rows of the query.
CreateTableAs(d, t, rows) == [d EXCEPT ![t] = [exists |-> TRUE, rows |-> rows]]

\* ------------------------------------------------------------- main's calls

StockPaths ==
    <<"static/data_part_1.parquet", "static/data_part_2.parquet",
      "static/data_part_3.parquet", "static/data_part_4.parquet",
      "static/data_part_5.parquet">>

TradePointPaths == <<"static/trade_points.csv">>

IndicatorPaths ==
    <<"static/indicators_1.parquet", "static/indicators_2.parquet",
      "static/indicators_3.parquet", "static/indicators_4.parquet",
      "static/indicators_5.parquet">>

\* The three calls of load_file_to_duckdb in main, in order.
LoadCalls ==
    <<[paths |-> StockPaths, table_name |-> INPUT_TABLE_NAME,
       data_type |-> "parquet", overwrite |-> TRUE],
      [paths |-> TradePointPaths, table_name |-> TRADE_POINTS_TABLE_NAME,
       data_type |-> "csv", overwrite |-> TRUE],
      [paths |-> IndicatorPaths, table_name |-> INDICATORS_TABLE_NAME,
       data_type |-> "parquet", overwrite |-> TRUE]>>

Range(q) == {q[i] : i \in DOMAIN q}

AllPaths == Range(StockPaths) \cup Range(TradePointPaths) \cup Range(IndicatorPaths)

\* The statements of main after the loads, in program order.
Stages == <<"Stocks", "Sales", "combined_view", "Averages", "export">>

VARIABLES
    missing,     \* the configured paths that do not exist on disk
    files,       \* path -> the rows of the file
    db,          \* analysis.db: table name -> [exists, rows]
    views,       \* whether the connection has the temp view combined_view
    conn,        \* "none" (conn not bound), "open", "closed"
    pc,          \* the statement main is at
    call,        \* the load_file_to_duckdb call in progress (0: none)
    load_files,  \* main's argument
    exc,         \* the exception raised in this run, "none" if none
    logged,      \* logging.exception ran
    result,      \* "running", "returned", "raised" (the exception left main)
    trace,       \* the steps of this run in the order they were carried out
    outputs,     \* the number of avg_sales_<timestamp>.csv files written
    run,         \* the number of this run of main
    callOps,     \* statements the load call in progress has sent to the store
    dbAtCall,    \* the store when the load call in progress was entered
    prev         \* the store and the outcome at the end of the previous run

vars ==
    <<missing, files, db, views, conn, pc, call, load_files, exc, logged,
      result, trace, outputs, run, callOps, dbAtCall, prev>>

inputs == <<missing, files, load_files, run, prev>>

\* read_parquet(paths) / read_csv_auto(paths, header=True): the rows of all the
\* files as one table.
RECURSIVE ReadFiles(_, _)
ReadFiles(fs, paths) ==
    IF paths = <<>> THEN EmptyBag
    ELSE fs[Head(paths)] (+) ReadFiles(fs, Tail(paths))

\* Variant of the existence check: the first path only.
FirstPathMissing(paths, gone) == paths[1] \in gone

\* for path in paths: if not Path(path).exists()
SomePathMissing(paths, gone) == \E i \in DOMAIN paths : paths[i] \in gone

\* The view is a stored query: its rows are those of the query over the
\* tables as they are when it is read.
combined_view == CombinedQuery(db["Sales"].rows, db["Stocks"].rows)

\* except Exception: every exception of the run is an Exception.
Catches(kind) == kind \in {"FileNotFoundError", "CatalogException", "IOException", "Error"}

\* Variant of raising: the failed statement is given up and main goes on with
\* the statement after it (after the loads, when a load fails).
RaiseAndContinue(kind) ==
    /\ exc' = kind
    /\ pc' = CASE pc = "connect" -> "finally"
                [] pc \in {"load_check", "load_drop", "load_create"} -> "stocks"
                [] pc = "stocks" -> "sales"
                [] pc = "sales" -> "combined"
                [] pc = "combined" -> "averages"
                [] pc = "averages" -> "export"
                [] OTHER -> "finally"
    /\ trace' = Append(trace, "FAIL")

\* An exception leaves the try block: the handler is next if it catches it.
Raise(kind) ==
    /\ exc' = kind
    /\ pc' = IF Catches(kind) THEN "except" ELSE "finally"
    /\ trace' = Append(trace, "FAIL")

\* Variant of the cleanup: the connection is left as it is.
LeaveOpen(c) == c

\* if 'conn' in locals(): conn.close()
CloseIfBound(c) == IF c = "none" THEN c ELSE "closed"

\* conn = duckdb.connect('analysis.db')
Connect ==
    /\ pc = "connect"
    /\ conn' = "open"
    /\ pc' = IF load_files THEN "load_check" ELSE "stocks"
    /\ call' = IF load_files THEN 1 ELSE 0
    /\ callOps' = 0
    /\ dbAtCall' = db
    /\ UNCHANGED <<inputs, db, views, exc, logged, result, trace, outputs>>

\* load_file_to_duckdb: the existence check of every path.
LoadCheck ==
    /\ pc = "load_check"
    /\ IF SomePathMissing(LoadCalls[call].paths, missing)
       THEN Raise("FileNotFoundError")
       ELSE pc' = "load_drop" /\ UNCHANGED <<exc, trace>>
    /\ UNCHANGED <<inputs, db, views, conn, call, logged, result, outputs,
                   callOps, dbAtCall>>

\* load_file_to_duckdb: if overwrite: DROP TABLE IF EXISTS
LoadDrop ==
    /\ pc = "load_drop"
    /\ pc' = "load_create"
    /\ IF LoadCalls[call].overwrite
       THEN /\ db' = DropTableIfExists(db, LoadCalls[call].table_name)
            /\ callOps' = callOps + 1
       ELSE UNCHANGED <<db, callOps>>
    /\ UNCHANGED <<inputs, views, conn, call, exc, logged, result, trace,
                   outputs, dbAtCall>>

\* load_file_to_duckdb: CREATE TABLE ... AS SELECT * FROM read_...(paths)
LoadCreate ==
    /\ pc = "load_create"
    /\ LET c == LoadCalls[call] IN
       IF SomePathMissing(c.paths, missing)
       THEN /\ Raise("IOException")
            /\ callOps' = callOps + 1
            /\ UNCHANGED <<db, call, dbAtCall>>
       ELSE IF db[c.table_name].exists
       THEN /\ Raise("CatalogException")
            /\ callOps' = callOps + 1
            /\ UNCHANGED <<db, call, dbAtCall>>
       ELSE /\ db' = CreateTableAs(db, c.table_name, ReadFiles(files, c.paths))
            /\ trace' = Append(trace, c.table_name)
            /\ exc' = exc
            /\ IF call < Len(LoadCalls)
               THEN /\ call' = call + 1
                    /\ pc' = "load_check"
                    /\ callOps' = 0
                    /\ dbAtCall' = db'
               ELSE /\ call' = 0
                    /\ pc' = "stocks"
                    /\ callOps' = callOps + 1
                    /\ dbAtCall' = dbAtCall
    /\ UNCHANGED <<inputs, views, conn, logged, result, outputs>>

StocksStage ==
    /\ pc = "stocks"
    /\ IF db[INPUT_TABLE_NAME].exists /\ db[TRADE_POINTS_TABLE_NAME].exists
       THEN /\ db' = CreateTableAs(db, "Stocks",
                        StocksQuery(db[INPUT_TABLE_NAME].rows,
                                    db[TRADE_POINTS_TABLE_NAME].rows))
            /\ trace' = Append(trace, "Stocks")
            /\ pc' = "sales"
            /\ exc' = exc
       ELSE Raise("CatalogException") /\ db' = db
    /\ UNCHANGED <<inputs, views, conn, call, logged, result, outputs,
                   callOps, dbAtCall>>

SalesStage ==
    /\ pc = "sales"
    /\ IF db[INDICATORS_TABLE_NAME].exists /\ db[TRADE_POINTS_TABLE_NAME].exists
       THEN /\ db' = CreateTableAs(db, "Sales",
                        SalesQuery(db[INDICATORS_TABLE_NAME].rows,
                                   db[TRADE_POINTS_TABLE_NAME].rows))
            /\ trace' = Append(trace, "Sales")
            /\ pc' = "combined"
            /\ exc' = exc
       ELSE Raise("CatalogException") /\ db' = db
    /\ UNCHANGED <<inputs, views, conn, call, logged, result, outputs,
                   callOps, dbAtCall>>

CombinedStage ==
    /\ pc = "combined"
    /\ IF db["Sales"].exists /\ db["Stocks"].exists
       THEN /\ views' = TRUE
            /\ trace' = Append(trace, "combined_view")
            /\ pc' = "averages"
            /\ exc' = exc
       ELSE Raise("CatalogException") /\ views' = views
    /\ UNCHANGED <<inputs, db, conn, call, logged, result, outputs,
                   callOps, dbAtCall>>

AveragesStage ==
    /\ pc = "averages"
    /\ IF views
       THEN /\ db' = CreateTableAs(db, "Averages", AveragesQuery(combined_view))
            /\ trace' = Append(trace, "Averages")
            /\ pc' = "export"
            /\ exc' = exc
       ELSE Raise("CatalogException") /\ db' = db
    /\ UNCHANGED <<inputs, views, conn, call, logged, result, outputs,
                   callOps, dbAtCall>>

\* COPY Averages TO 'avg_sales_<timestamp>.csv'
Export ==
    /\ pc = "export"
    /\ IF db["Averages"].exists
       THEN /\ outputs' = outputs + 1
            /\ trace' = Append(trace, "export")
            /\ pc' = "finally"
            /\ exc' = exc
       ELSE Raise("CatalogException") /\ outputs' = outputs
    /\ UNCHANGED <<inputs, db, views, conn, call, logged, result, callOps,
                   dbAtCall>>

\* The steps at which main calls the engine.
EngineSteps ==
    {"connect", "load_drop", "load_create", "stocks", "sales", "combined",
     "averages", "export"}

\* The engine fails the call: the database file is locked, a source file
\* cannot be parsed, the output file cannot be written, ...
EngineError ==
    /\ pc \in EngineSteps
    /\ pc = "load_drop" => LoadCalls[call].overwrite
    /\ Raise("Error")
    /\ callOps' = IF pc \in {"load_drop", "load_create"} THEN callOps + 1 ELSE callOps
    /\ UNCHANGED <<inputs, db, views, conn, call, logged, result, outputs,
                   dbAtCall>>

\* except Exception as e: logging.exception(repr(e))
Except ==
    /\ pc = "except"
    /\ logged' = TRUE
    /\ pc' = "finally"
    /\ UNCHANGED <<inputs, db, views, conn, call, exc, result, trace, outputs,
                   callOps, dbAtCall>>

\* finally: close the connection; an exception no handler took leaves main.
Finally ==
    /\ pc = "finally"
    /\ conn' = CloseIfBound(conn)
    /\ views' = FALSE
    /\ result' = IF exc # "none" /\ ~logged THEN "raised" ELSE "returned"
    /\ pc' = "done"
    /\ UNCHANGED <<inputs, db, call, exc, logged, trace, outputs, callOps,
                   dbAtCall>>

\* The caller runs main again on the same analysis.db and the same files.
NextRun ==
    /\ pc = "done"
    /\ run < MaxRuns
    /\ run' = run + 1
    /\ prev' = [valid |-> TRUE, db |-> db, load_files |-> load_files,
                exc |-> exc, outputs |-> outputs]
    /\ load_files' \in BOOLEAN
    /\ pc' = "connect"
    /\ conn' = "none"
    /\ call' = 0
    /\ exc' = "none"
    /\ logged' = FALSE
    /\ result' = "running"
    /\ trace' = <<>>
    /\ callOps' = 0
    /\ dbAtCall' = db
    /\ UNCHANGED <<missing, files, db, views, outputs>>

\* ------------------------------------------------------------- source data

Stores == {"S1", "S2"}
Items == {{"I1"}, NULL}
Dates == {WindowStart - 1, WindowStart, WindowEnd, WindowEnd + 1}
Times == {"00:00", "12:00"}
Quantities == {NULL, {-1}, {0}, {1}}
StoreTypes == {SmallWarehouse, "big_warehouse"}

BaseKey == [Store |-> "S1", Item |-> {"I1"}, Dt |-> WindowStart]

\* The keys that differ from BaseKey in at most one column.
Keys ==
    {k \in [Store : Stores, Item : Items, Dt : Dates] :
        Cardinality({c \in {"Store", "Item", "Dt"} : k[c] # BaseKey[c]}) <= 1}

StockRows ==
    {[final_store_id |-> k.Store, final_item_id |-> k.Item, dt |-> k.Dt,
      stock |-> q] : k \in Keys, q \in Quantities}

\* The shipped amount of a row is its units at UnitPrice.
Rub(q) == IF q = NULL THEN NULL ELSE {UnitPrice * Get(q)}

\* A time of day other than midnight occurs on the rows of BaseKey.
IndicatorRows ==
    {[store |-> kt[1].Store, item |-> kt[1].Item,
      date |-> [date |-> kt[1].Dt, time |-> kt[2]], pc |-> q, rub |-> Rub(q)] :
        kt \in {x \in Keys \X Times : x[2] = "00:00" \/ x[1] = BaseKey},
        q \in Quantities}

RECURSIVE BagsUpTo(_, _)
\* The bags of at most n elements of R.
BagsUpTo(R, n) ==
    IF n = 0 THEN {EmptyBag}
    ELSE LET S == BagsUpTo(R, n - 1)
         IN  S \cup {b (+) SetToBag({r}) : b \in S, r \in R}

\* A directory lists every store once, with its type.
Directories ==
    {SetToBag({[store_code |-> s, store_type |-> f[s]] : s \in Stores}) :
        f \in [Stores -> StoreTypes]}

\* The stock and indicator feeds are split across their part files by store,
\* the directory is one file.
Layout(stock, directory, indicators) ==
    [p \in AllPaths |->
        IF p = StockPaths[1]
            THEN FilterBag(stock, LAMBDA r : r.final_store_id = "S1")
        ELSE IF p = StockPaths[2]
            THEN FilterBag(stock, LAMBDA r : r.final_store_id # "S1")
        ELSE IF p = TradePointPaths[1] THEN directory
        ELSE IF p = IndicatorPaths[1]
            THEN FilterBag(indicators, LAMBDA r : r.store = "S1")
        ELSE IF p = IndicatorPaths[2]
            THEN FilterBag(indicators, LAMBDA r : r.store # "S1")
        ELSE EmptyBag]

\* The files of the runs that explore main's control flow: stock on two days
\* of one item of an eligible store and of another store, one sale.
ControlFiles ==
    Layout(
        SetToBag({[final_store_id |-> "S1", final_item_id |-> {"I1"},
                   dt |-> 32, stock |-> {5}],
                  [final_store_id |-> "S1", final_item_id |-> {"I1"},
                   dt |-> 33, stock |-> {0}],
                  [final_store_id |-> "S2", final_item_id |-> {"I1"},
                   dt |-> 32, stock |-> {7}]}),
        SetToBag({[store_code |-> "S1", store_type |-> SmallWarehouse],
                  [store_code |-> "S2", store_type |-> "big_warehouse"]}),
        SetToBag({[store |-> "S1", item |-> {"I1"},
                   date |-> [date |-> 32, time |-> "12:00"],
                   pc |-> {3}, rub |-> {30}]}))

\* The files of an earlier report, whose tables a warm analysis.db still holds.
EarlierFiles ==
    Layout(
        SetToBag({[final_store_id |-> "S2", final_item_id |-> {"I1"},
                   dt |-> WindowStart, stock |-> {2}]}),
        SetToBag({[store_code |-> "S2", store_type |-> SmallWarehouse]}),
        SetToBag({[store |-> "S2", item |-> {"I1"},
                   date |-> [date |-> WindowStart, time |-> "00:00"],
                   pc |-> {1}, rub |-> {4}]}))

\* analysis.db after a complete run of main(load_files=True) over fs.
DbAfterRun(fs) ==
    LET input == ReadFiles(fs, StockPaths)
        tp == ReadFiles(fs, TradePointPaths)
        ind == ReadFiles(fs, IndicatorPaths)
        stocks == StocksQuery(input, tp)
        sales == SalesQuery(ind, tp)
    IN  [t \in TableNames |->
            [exists |-> TRUE,
             rows |-> CASE t = INPUT_TABLE_NAME -> input
                        [] t = TRADE_POINTS_TABLE_NAME -> tp
                        [] t = INDICATORS_TABLE_NAME -> ind
                        [] t = "Stocks" -> stocks
                        [] t = "Sales" -> sales
                        [] OTHER -> AveragesQuery(CombinedQuery(sales, stocks))]]

\* What every run starts from.
Start ==
    /\ views = FALSE
    /\ conn = "none"
    /\ pc = "connect"
    /\ call = 0
    /\ exc = "none"
    /\ logged = FALSE
    /\ result = "running"
    /\ trace = <<>>
    /\ outputs = 0
    /\ run = 1
    /\ callOps = 0
    /\ dbAtCall = db
    /\ prev = [valid |-> FALSE, db |-> db, load_files |-> load_files,
               exc |-> "none", outputs |-> 0]

\* main is called on a cold or a warm analysis.db, with or without loading,
\* and up to MaxMissing of the configured files do not exist.
Init ==
    /\ missing \in {m \in SUBSET AllPaths : Cardinality(m) <= MaxMissing}
    /\ files = ControlFiles
    /\ db \in {ColdDb, DbAfterRun(EarlierFiles)}
    /\ load_files \in BOOLEAN
    /\ Start

Next ==
    \/ Connect
    \/ LoadCheck
    \/ LoadDrop
    \/ LoadCreate
    \/ StocksStage
    \/ SalesStage
    \/ CombinedStage
    \/ AveragesStage
    \/ Export
    \/ EngineError
    \/ Except
    \/ Finally
    \/ NextRun

Spec == Init /\ [][Next]_vars

\* main(load_files=True) on a cold analysis.db, all files present, over every
\* stock and indicator feed of at most MaxRows rows and every directory.
InitData ==
    /\ missing = {}
    /\ \E b \in BagsUpTo(StockRows \cup IndicatorRows, MaxRows),
          d \in Directories :
          files = Layout(FilterBag(b, LAMBDA r : r \in StockRows), d,
                         FilterBag(b, LAMBDA r : r \in IndicatorRows))
    /\ db = ColdDb
    /\ load_files = TRUE
    /\ Start

\* The steps of a run in which no call of the engine fails.
NextData ==
    \/ Connect
    \/ LoadCheck
    \/ LoadDrop
    \/ LoadCreate
    \/ StocksStage
    \/ SalesStage
    \/ CombinedStage
    \/ AveragesStage
    \/ Export
    \/ Finally

SpecData == InitData /\ [][NextData]_vars

\* ------------------------------------------------------------- the claims

\* Step s of this run was carried out.
Did(s) == \E i \in DOMAIN trace : trace[i] = s

IsPrefix(a, b) == Len(a) <= Len(b) /\ \A i \in 1..Len(a) : a[i] = b[i]

\* The order main carries its steps out in.
ExpectedOrder(lf) ==
    (IF lf THEN <<INPUT_TABLE_NAME, TRADE_POINTS_TABLE_NAME, INDICATORS_TABLE_NAME>>
     ELSE <<>>) \o Stages

\* The full outer join with the select list applied and no row filtered.
Joined == MapBag(FullOuterJoin(db["Sales"].rows, db["Stocks"].rows), CombinedSelect)

\* The join pairs that pass the WHERE clause of combined_view.
KeptPairs ==
    {j \in DOMAIN FullOuterJoin(db["Sales"].rows, db["Stocks"].rows) :
        CombinedSelect(j) \in DOMAIN combined_view}

Positive(r) == Get(r.Sales_pc) > 0 \/ Get(r.Stock_pc) > 0

AllZero(r) == r.Sales_pc = {0} /\ r.Stock_pc = {0}

\* C1: once a load call whose path list holds a missing path is past its
\* existence check, it has raised FileNotFoundError, has sent no statement to
\* the store, and the store is as it was when the call was entered (no table
\* created, none dropped).
C1_MissingPathFailsFast ==
    (/\ call # 0
     /\ pc \notin {"connect", "load_check"}
     /\ Range(LoadCalls[call].paths) \cap missing # {})
    => /\ exc = "FileNotFoundError"
       /\ callOps = 0
       /\ db = dbAtCall

\* A call with overwrite = TRUE on an existing table, whose first path exists
\* and a later one does not, has raised and the table is still there.
C1_Witness ==
    /\ call = 1
    /\ pc = "except"
    /\ exc = "FileNotFoundError"
    /\ LoadCalls[call].overwrite
    /\ LoadCalls[call].paths[1] \notin missing
    /\ Range(LoadCalls[call].paths) \cap missing # {}
    /\ db[LoadCalls[call].table_name].exists

\* C2 as stated: no row of combined_view is all-zero, and every row of the
\* coalesced full outer join that is not all-zero is in combined_view.
C2_ExactlyAllZeroDropped ==
    views =>
        /\ \A r \in DOMAIN combined_view : ~AllZero(r)
        /\ \A r \in DOMAIN Joined : ~AllZero(r) => r \in DOMAIN combined_view

\* C2 amended: no row of combined_view is all-zero, and combined_view holds
\* exactly the rows of the coalesced full outer join with Sales_pc > 0 or
\* Stock_pc > 0, each as often as the join yields it; a row without a positive
\* quantity is dropped also when one of its quantities is negative.
C2_ExactlyNonPositiveDropped ==
    views =>
        /\ \A r \in DOMAIN combined_view : ~AllZero(r)
        /\ combined_view = FilterBag(Joined, Positive)

\* The join yields a row with negative sales and no stock, which is dropped,
\* and a row that is kept.
C2_Witness ==
    /\ views
    /\ \E r \in DOMAIN Joined :
          Get(r.Sales_pc) < 0 /\ r.Stock_pc = {0} /\ r \notin DOMAIN combined_view
    /\ combined_view # EmptyBag

\* C3: every row of combined_view has Sales_pc > 0 or Stock_pc > 0, and a row
\* of the join that is all-zero after coalescing is not in combined_view.
C3_RetentionRule ==
    views =>
        /\ \A r \in DOMAIN combined_view : Positive(r)
        /\ \A r \in DOMAIN Joined : AllZero(r) => r \notin DOMAIN combined_view

\* A join row whose sales side is missing and whose stock is zero is dropped
\* while another row survives.
C3_Witness ==
    /\ views
    /\ \E j \in DOMAIN FullOuterJoin(db["Sales"].rows, db["Stocks"].rows) :
          /\ j.s = {}
          /\ Get(j.st).Stock_pc = {0}
          /\ CombinedSelect(j) \notin DOMAIN combined_view
    /\ combined_view # EmptyBag

\* The rows of combined_view of one (Store, Item).
GroupOf(a) == FilterBag(combined_view, LAMBDA r : r.Store = a.Store /\ r.Item = a.Item)

\* C4: in every row of Averages, Total_sales_pc is the sum of Sales_pc over the
\* rows of combined_view of its (Store, Item), Days_with_data is their number,
\* and Avg_sales_pc * Days_with_data = Total_sales_pc.
C4_AggregationCorrect ==
    (Did("Averages") /\ views) =>
        \A a \in DOMAIN db["Averages"].rows :
            LET g == GroupOf(a)
                total == SumFn([r \in DOMAIN g |-> g[r] * Get(r.Sales_pc)])
                days == SumFn(g)
            IN  /\ a.Total_sales_pc = {total}
                /\ a.Days_with_data = days
                /\ a.Avg_sales_pc # NULL
                /\ Get(a.Avg_sales_pc).num * days = total * Get(a.Avg_sales_pc).den

\* A group of two days with sales on one of them.
C4_Witness ==
    /\ Did("Averages")
    /\ views
    /\ \E a \in DOMAIN db["Averages"].rows :
          a.Days_with_data >= 2 /\ a.Total_sales_pc \notin {NULL, {0}}

\* The stores of the directory table whose type is the target type.
TargetStores ==
    {t.store_code :
        t \in {t \in DOMAIN db[TRADE_POINTS_TABLE_NAME].rows :
                  t.store_type = SmallWarehouse}}

InScope(store, date) ==
    store \in TargetStores /\ WindowStart <= date /\ date <= WindowEnd

\* C5: once Stocks and Sales are derived, every row of either has a store of
\* the target type and a date in [WindowStart, WindowEnd], and both hold
\* exactly the keys of their source rows that pass this one test.
C5_FilterCorrect ==
    Did("Sales") =>
        /\ \A r \in DOMAIN db["Stocks"].rows : InScope(r.Store, r.Dt)
        /\ \A r \in DOMAIN db["Sales"].rows : InScope(r.Store, r.Dt)
        /\ {<<r.Store, r.Item, r.Dt>> : r \in DOMAIN db["Stocks"].rows}
           = {<<r.final_store_id, r.final_item_id, r.dt>> :
                r \in {r \in DOMAIN db[INPUT_TABLE_NAME].rows :
                          InScope(r.final_store_id, r.dt)}}
        /\ {<<r.Store, r.Item, r.Dt>> : r \in DOMAIN db["Sales"].rows}
           = {<<r.store, r.item, r.date.date>> :
                r \in {r \in DOMAIN db[INDICATORS_TABLE_NAME].rows :
                          InScope(r.store, r.date.date)}}

\* Stocks keeps a row while an indicator row dated outside the window, of a
\* store of the target type, is left out of Sales.
C5_Witness ==
    /\ Did("Sales")
    /\ db["Stocks"].rows # EmptyBag
    /\ \E r \in DOMAIN db[INDICATORS_TABLE_NAME].rows :
          /\ r.store \in TargetStores
          /\ r.date.date > WindowEnd
    /\ db["Sales"].rows = EmptyBag

\* C6: when main(load_files=True) has run twice in a row over the same files
\* and no engine call failed in either run, the tables after the second run
\* are those after the first.
C6_RerunIdempotent ==
    (/\ pc = "done"
     /\ prev.valid
     /\ prev.load_files
     /\ load_files
     /\ prev.exc # "Error"
     /\ exc # "Error")
    => db = prev.db

\* Two complete runs with loading, the second over a store the first filled.
C6_Witness ==
    /\ pc = "done"
    /\ prev.valid
    /\ prev.load_files
    /\ load_files
    /\ prev.exc = "none"
    /\ exc = "none"
    /\ db["Averages"].rows # EmptyBag
    /\ db["Stocks"].rows # EmptyBag

\* C7: when main is over it has returned, the connection is not open (it is
\* closed unless connecting itself failed), and an exception of the run was
\* logged.
C7_ClosedOnEveryExit ==
    pc = "done" =>
        /\ conn # "open"
        /\ conn = "none" => trace = <<"FAIL">>
        /\ result = "returned"
        /\ exc # "none" => logged

\* A run that failed after some steps and closed its connection.
C7_Witness ==
    /\ pc = "done"
    /\ exc # "none"
    /\ Len(trace) > 1
    /\ conn = "closed"
    /\ result = "returned"

\* The pairs (Store, Item) of combined_view.
CombinedPairs == {<<r.Store, r.Item>> : r \in DOMAIN combined_view}

\* C8: Averages holds one row for every (Store, Item) of combined_view and no
\* row of another pair.
C8_OneRowPerPair ==
    (Did("Averages") /\ views) =>
        /\ \A p \in CombinedPairs :
              SumFn(FilterBag(db["Averages"].rows,
                              LAMBDA a : <<a.Store, a.Item>> = p)) = 1
        /\ \A a \in DOMAIN db["Averages"].rows : <<a.Store, a.Item>> \in CombinedPairs

\* One pair with rows of two dates in combined_view.
C8_Witness ==
    /\ Did("Averages")
    /\ views
    /\ \E r1 \in DOMAIN combined_view, r2 \in DOMAIN combined_view :
          r1.Store = r2.Store /\ r1.Item = r2.Item /\ r1.Dt # r2.Dt

\* C9: every row of combined_view has non-NULL Sales_pc, Sales_rub and
\* Stock_pc; a row of a pair without sales side has Sales_pc = 0, Sales_rub = 0
\* and the key of the stock row; a row of a pair without stock side has
\* Stock_pc = 0 and the key of the sales row.
C9_NullsCoalesced ==
    views =>
        /\ \A r \in DOMAIN combined_view :
              r.Sales_pc # NULL /\ r.Sales_rub # NULL /\ r.Stock_pc # NULL
        /\ \A j \in KeptPairs :
              LET r == CombinedSelect(j) IN
              /\ j.s = {} =>
                    /\ r.Sales_pc = {0}
                    /\ r.Sales_rub = {0}
                    /\ <<r.Dt, r.Store, r.Item>>
                       = <<Get(j.st).Dt, Get(j.st).Store, Get(j.st).Item>>
              /\ j.st = {} =>
                    /\ r.Stock_pc = {0}
                    /\ <<r.Dt, r.Store, r.Item>>
                       = <<Get(j.s).Dt, Get(j.s).Store, Get(j.s).Item>>

\* combined_view holds a row that only Stocks provides and one that only Sales
\* provides.
C9_Witness ==
    /\ views
    /\ \E j \in KeptPairs : j.s = {}
    /\ \E j \in KeptPairs : j.st = {}

\* C10: the steps carried out in a run are an initial part of load (if
\* load_files), Stocks, Sales, combined_view, Averages, export, each once; a
\* failure is the last thing that happens in the run, and a run that failed
\* wrote no output file.
C10_OrderedAndTerminal ==
    LET n == Len(trace)
        failed == exc # "none"
        steps == IF failed /\ n > 0 THEN SubSeq(trace, 1, n - 1) ELSE trace
    IN  /\ IsPrefix(steps, ExpectedOrder(load_files))
        /\ failed => /\ n > 0
                     /\ trace[n] = "FAIL"
                     /\ outputs = prev.outputs

\* main(load_files=False) on a store without tables fails at its first query
\* and is over without an output file.
C10_Witness ==
    /\ pc = "done"
    /\ ~load_files
    /\ run = 1
    /\ exc = "CatalogException"
    /\ trace = <<"FAIL">>
    /\ outputs = 0

====
